---- MODULE Spec2Model ----
(***************************************************************************)
(* Model of the protocol engine of drpc (src/drpc/drpc.hpp): the Client    *)
(* class (Connect, UpdateActivity, ClearActivity, Run), the Pipe transport  *)
(* it drives and the presence host at the other end of the pipe.           *)
(*                                                                         *)
(* Two threads are modelled, as in src/example.cpp: the thread that runs   *)
(* main and then Client::Run ("pc"), and a caller thread that submits      *)
(* activities while Run executes ("cpc").  The code takes no lock, so a    *)
(* submission is not one step: the loop may run between its statements.    *)
(* One operation of std::queue or std::map is taken as indivisible; the    *)
(* threads interleave between such operations.                             *)
(***************************************************************************)
EXTENDS Integers, Sequences, FiniteSets

\* ------------------------------------------------------------------ bounds
MaxSubmit == 2      \* the caller thread submits while fewer were made in all
MaxFaults == 1      \* transport faults (failed write, failed read, broken pipe)
MaxPartySize == 6   \* largest size passed to Party::SetCurrentSize / SetMaxSize
MaxPayload == 2     \* longest payload, in bytes, handed to Pipe::Write

\* --------------------------------------------------------------- constants
NULL  == "NULL"                 \* nullptr
NoNonce == 0                    \* the empty string of a default IpcMessage::nonce
EMPTY == "EMPTY"                \* the empty JSON object {} of ClearActivity
Acts  == {"A", "B"}             \* activities a caller may publish

\* enum class Result
Ok              == "Ok"
OpenPipeFailed  == "OpenPipeFailed"
ReadPipeFailed  == "ReadPipeFailed"
WritePipeFailed == "WritePipeFailed"
HandshakeFailed == "HandshakeFailed"
ReadPipeNoData  == "ReadPipeNoData"
UnknownError    == "UnknownError"

\* enum class Event
Connected    == "Connected"
Disconnected == "Disconnected"

VARIABLES
    pipe_handle,        \* WindowsPipe::pipe_handle: TRUE when it is not NULL
    alive,              \* the host end of the open pipe is still there
    hostSeen,           \* nonces of the commands the host received on this pipe
    outgoing_messages,  \* Client::outgoing_messages (std::queue<IpcMessage>)
    callbacks,          \* Client::callbacks: nonce -> continuation
    last_activity,      \* Client::last_activity (NULL: nullptr)
    auto_reconnect,     \* ClientSettings::auto_reconnect
    pc,                 \* position of the thread running main and Run
    cpc,                \* position of the caller thread inside a submission
    call,               \* the caller thread's submission in progress
    submitted,          \* history: every submission, in enqueue order
    fired,              \* history: per submission, the results its continuation got
    writes,             \* history: every frame the drain loop handed to Pipe::Write, and whether the write succeeded
    drain,              \* history: where the current drain pass began
    reconn,             \* history: the last successful reconnect of the loop
    events,             \* history: what event_callback was invoked with
    conn,               \* the last Connect call: what the transport did, what it returned
    rd,                 \* Run's result and msg between the read and the dispatch, and history: the result its log_callback call was given
    faults,             \* number of transport faults so far
    party,              \* a Party object: current_size and max_size
    ndebug,             \* the build defines NDEBUG: assert() compiles to nothing
    aborted,            \* an assert() failed and the program was aborted
    sent,               \* the opCode and payload handed to Pipe::Write
    coming,             \* bytes written into the pipe, not yet readable at the other end
    wire,               \* bytes readable from the pipe, oldest first
    got,                \* what the last Pipe::Read returned and stored
    act,                \* an Activity object and the objects it points to
    sets,               \* number of setter calls made on the activity
    json,               \* the text of a JsonWriter that the activity was written to
    payload             \* the text of the writer UpdateActivity builds its message in

\* The state of the protocol engine (Client, its pipe, its two threads).
engineVars == <<pipe_handle, alive, hostSeen, outgoing_messages, callbacks,
                last_activity, auto_reconnect, pc, cpc, call, submitted, fired,
                writes, drain, reconn, events, conn, rd, faults>>

\* The state of the activity types, outside the engine.
partyVars == <<party, ndebug, aborted>>

\* One frame on its way through the pipe.
frameVars == <<sent, coming, wire, got>>

\* One activity and what it serializes to.
jsonVars == <<act, sets, json, payload>>

dataVars == <<partyVars, frameVars, jsonVars>>

outsideParty == <<engineVars, frameVars, jsonVars>>
outsideFrame == <<engineVars, partyVars, jsonVars>>
outsideJson  == <<engineVars, partyVars, frameVars>>

vars == <<engineVars, dataVars>>

pipeVars   == <<pipe_handle, alive, hostSeen>>
callerVars == <<cpc, call>>

NoCall   == [activity |-> NULL, nonce |-> NoNonce, kind |-> NULL]
NoDrain  == [start |-> 0, k |-> 0]
NoReconn == [upto |-> 0, activity |-> NULL]
NoOp     == 3                   \* no reply frame was read
NoConn   == [ret |-> NULL, op |-> NoOp, failed |-> NULL]
NoMsg    == [op_code |-> NoOp, message |-> [nonce |-> NoNonce, evt |-> FALSE]]
NoRead   == [result |-> NULL, msg |-> NoMsg, logged |-> NULL]
NoGot    == [result |-> NULL, op_code |-> NoOp, message |-> <<>>, peek |-> FALSE]

\* ----------------------------------------------------------------- helpers
Last(s) == s[Len(s)]

\* The first Len(s) - 1 elements of s.
Front(s) == SubSeq(s, 1, Len(s) - 1)

\* f with key k bound to v (std::map::operator[] followed by assignment).
MapPut(f, k, v) == [x \in DOMAIN f \cup {k} |-> IF x = k THEN v ELSE f[x]]

\* f without key k (std::map::erase).
MapErase(f, k) == [x \in DOMAIN f \ {k} |-> f[x]]

EmptyMap == [x \in {} |-> NULL]

\* Pipe::IsOpen: the handle is set and the pipe still answers.
IsOpen == pipe_handle /\ alive

\* A token no earlier submission carries: the 122 random bits of a UUIDv4.
GenerateUUIDv4 == Len(submitted) + 1

\* The SET_ACTIVITY payload built by JsonWriter in UpdateActivity/ClearActivity.
BuildPayload(activity, nonce) ==
    [cmd |-> "SET_ACTIVITY", activity |-> activity, nonce |-> nonce]

\* The IpcMessage placed in the queue.
MakeMessage(activity, nonce) ==
    [op_code |-> 1, message |-> BuildPayload(activity, nonce), nonce |-> nonce]

\* The regex of Pipe::Read: the payload's "nonce" member, or nothing.
ExtractNonce(message) == message.nonce

\* ------------------------------------------------------------------- state
EngineInit ==
    /\ pipe_handle = FALSE
    /\ alive = FALSE
    /\ hostSeen = {}
    /\ outgoing_messages = <<>>
    /\ callbacks = EmptyMap
    /\ last_activity = NULL
    /\ auto_reconnect \in BOOLEAN
    /\ pc = "main"
    /\ cpc = "idle"
    /\ call = NoCall
    /\ submitted = <<>>
    /\ fired = <<>>
    /\ writes = <<>>
    /\ drain = NoDrain
    /\ reconn = NoReconn
    /\ events = <<>>
    /\ conn = NoConn
    /\ rd = NoRead
    /\ faults = 0

\* A default-constructed Party (current_size = 0, max_size = 0); nothing has
\* aborted.
PartyInit ==
    /\ party = [current_size |-> 0, max_size |-> 0]
    /\ aborted = FALSE

\* An empty pipe: nothing written, nothing read.
FrameInit ==
    /\ sent = [op_code |-> 0, message |-> <<>>, written |-> FALSE]
    /\ coming = <<>>
    /\ wire = <<>>
    /\ got = NoGot

\* A JsonWriter as constructed: no text.  strings is history: the strings
\* handed to the string branch of JsonValue::ToJson, in order.
NewWriter == [s |-> <<>>, strings |-> <<>>]

\* An Activity as its member initializers leave it.  A text is the sequence
\* of its pieces: one piece per character for the texts a caller passes in,
\* one piece for a key or keyword that the source spells out; party is the empty sequence for nullptr and holds the
\* Party otherwise; timestamps and assets always point to an object.
NewActivity ==
    [client_id  |-> 0,
     name       |-> <<>>,
     type       |-> 0,
     details    |-> <<>>,
     state      |-> <<>>,
     timestamps |-> [start |-> 0, end |-> 0],
     party      |-> <<>>,
     assets     |-> [large_image |-> <<>>, large_text |-> <<>>,
                     small_image |-> <<>>, small_text |-> <<>>],
     buttons    |-> <<>>]

\* A Party as its member initializers leave it.
NewParty == [id |-> <<>>, current_size |-> 0, max_size |-> 0]

JsonInit ==
    /\ act = NewActivity
    /\ sets = 0
    /\ json = NewWriter
    /\ payload = NewWriter

DataInit == PartyInit /\ ndebug = FALSE /\ FrameInit /\ JsonInit

Init == EngineInit /\ DataInit

\* A Close that leaves the handle as it is.
ClosePipe_KeepHandle == UNCHANGED pipeVars

\* The pipe after Pipe::Close: no handle, and the host's end is gone with it.
ClosePipe ==
    /\ pipe_handle' = FALSE
    /\ alive' = FALSE
    /\ hostSeen' = {}

\* ----------------------------------------------------------------- Connect
\* A handshake that takes the handshake opCode for the success opCode.
HandshakeSuccess_OpZero(op) == op = 0

\* bool success = message.op_code == 1
HandshakeSuccess(op) == op = 1

\* A Connect that reports a failed read of the reply as a handshake failure.
ConnectAfterRead_AllHandshakeFailed(readOk, op) ==
    IF readOk /\ op = 1 THEN Ok ELSE HandshakeFailed

\* What Connect returns once the handshake frame is written: the result of the
\* blocking read when it failed, else Ok or HandshakeFailed by the reply's opCode.
ConnectAfterRead(readOk, op) ==
    IF ~readOk THEN ReadPipeFailed
    ELSE IF HandshakeSuccess(op) THEN Ok ELSE HandshakeFailed

\* Connect's return value. openOk, writeOk, readOk and op are what the
\* transport does: CreateFile, the write of the handshake frame, the blocking
\* read of the reply and the reply's opCode.
ConnectResult(openOk, writeOk, readOk, op) ==
    IF ~(pipe_handle \/ openOk) THEN OpenPipeFailed
    ELSE IF ~writeOk THEN WritePipeFailed
    ELSE ConnectAfterRead(readOk, op)

\* The events Connect raises: Connected, once, when a reply frame was read and
\* success is true.
ConnectEvents(gotFrame, op) ==
    IF gotFrame /\ HandshakeSuccess(op) THEN Append(events, Connected) ELSE events

\* Client::Connect as a step: Open (a no-op on a handle that is already set),
\* the handshake write, the blocking read of one frame, the event.
Connect(openOk, writeOk, readOk, op) ==
    LET fresh  == ~pipe_handle /\ openOk
        handle == pipe_handle \/ openOk
        live   == IF fresh THEN TRUE ELSE alive
        ret    == ConnectResult(openOk, writeOk, readOk, op)
        gotFrame == handle /\ writeOk /\ readOk
    IN  /\ writeOk => live           \* a write to a dead pipe fails
        /\ pipe_handle' = handle
        /\ alive' = (handle /\ live)
        /\ hostSeen' = IF fresh THEN {} ELSE hostSeen
        /\ events' = ConnectEvents(gotFrame, op)
        /\ conn' = [ret |-> ret, op |-> IF gotFrame THEN op ELSE NoOp,
                    failed |-> IF ~handle THEN "open"
                               ELSE IF ~writeOk THEN "write"
                               ELSE IF ~readOk THEN "read" ELSE "none"]

\* The opCodes the host may answer the handshake with.
ReplyOps == {0, 1, 2}

\* The outcomes of the transport during one Connect, without repetitions: the
\* later choices are fixed when an earlier one already ended the call, and
\* Open does not call CreateFile when the handle is already set.
ConnectChoices ==
    {c \in [openOk : BOOLEAN, writeOk : BOOLEAN, readOk : BOOLEAN, op : ReplyOps] :
        /\ (pipe_handle => c.openOk)
        /\ (~c.openOk => ~c.writeOk)
        /\ (~c.writeOk => ~c.readOk)
        /\ (~c.readOk => c.op = 0)}

\* ------------------------------------------------------------ submissions
\* outgoing_messages.emplace(IpcMessage{1, payload, nonce})
Enqueue(queue, activity, nonce) == Append(queue, MakeMessage(activity, nonce))

\* A table that forgets the pending calls recorded before.
RecordPending_Only(cbs, nonce, sid) == [x \in {nonce} |-> sid]

\* callbacks[nonce] = callback
RecordPending(cbs, nonce, sid) == MapPut(cbs, nonce, sid)

\* A ClearActivity that leaves the snapshot as it is.
StoreSnapshot_KeepOnClear(kind, activity) ==
    IF kind = "clear" THEN last_activity ELSE activity

\* last_activity = activity (UpdateActivity) or nullptr (ClearActivity)
StoreSnapshot(kind, activity) == IF kind = "clear" THEN NULL ELSE activity

CallerSubmissions == {i \in 1..Len(submitted) : submitted[i].by = "caller"}

\* First statement of UpdateActivity (kind "set") or ClearActivity (kind
\* "clear") on the caller thread: the token is drawn, the payload built and
\* the message queued.
CallerEnqueue(kind, activity) ==
    /\ cpc = "idle"
    /\ Len(submitted) < MaxSubmit
    /\ LET nonce == GenerateUUIDv4
           body  == IF kind = "clear" THEN EMPTY ELSE activity
       IN  /\ outgoing_messages' = Enqueue(outgoing_messages, body, nonce)
           /\ call' = [activity |-> activity, nonce |-> nonce, kind |-> kind]
           /\ submitted' = Append(submitted,
                  [nonce |-> nonce, activity |-> body, by |-> "caller"])
           /\ fired' = Append(fired, <<>>)
    /\ cpc' = "queued"
    /\ UNCHANGED <<pipeVars, callbacks, last_activity, auto_reconnect, pc,
                   writes, drain, reconn, events, conn, rd, faults>>
    /\ UNCHANGED dataVars

\* The remaining statements: the continuation is recorded under the token and
\* the snapshot overwritten; the call returns.  No step of Run reads both the
\* table and the snapshot, so the two assignments are one step.
CallerRecord ==
    /\ cpc = "queued"
    /\ callbacks' = RecordPending(callbacks, call.nonce, call.nonce)
    /\ last_activity' = StoreSnapshot(call.kind, call.activity)
    /\ cpc' = "idle"
    /\ call' = NoCall
    /\ UNCHANGED <<pipeVars, outgoing_messages, auto_reconnect, pc, submitted,
                   fired, writes, drain, reconn, events, conn, rd, faults>>
    /\ UNCHANGED dataVars

\* The activities are interchangeable, so the first one published is "A".
Publishable ==
    {a \in Acts : a = "A" \/ \E i \in 1..Len(submitted) : submitted[i].activity = "A"}

UpdateActivity == \E a \in Publishable : CallerEnqueue("set", a)

ClearActivity == CallerEnqueue("clear", NULL)

\* ------------------------------------------------------------ main and Run
\* main calls Connect once and then enters Run (src/example.cpp).
MainConnect ==
    /\ pc = "main"
    /\ \E c \in ConnectChoices : Connect(c.openOk, c.writeOk, c.readOk, c.op)
    /\ pc' = "top"
    /\ UNCHANGED <<outgoing_messages, callbacks, last_activity, auto_reconnect,
                   callerVars, submitted, fired, writes, drain, reconn, rd,
                   faults>>
    /\ UNCHANGED dataVars

\* A reconnect that resubmits whether or not a snapshot is retained.
ShouldResubmit_Always(ret) == ret = Ok

\* if (last_activity != nullptr) after a successful Connect in Run
ShouldResubmit(ret) == ret = Ok /\ last_activity # NULL

\* Run, transport not open, auto_reconnect set: Connect, and on success
\* UpdateActivity(last_activity, ...) when a snapshot is retained; then the
\* loop sleeps and starts over.
RunReconnect ==
    /\ pc = "top"
    /\ ~IsOpen
    /\ auto_reconnect
    /\ \E c \in ConnectChoices :
        /\ Connect(c.openOk, c.writeOk, c.readOk, c.op)
        /\ LET ret   == ConnectResult(c.openOk, c.writeOk, c.readOk, c.op)
               nonce == GenerateUUIDv4
           IN  IF ShouldResubmit(ret)
               THEN /\ outgoing_messages' =
                           Enqueue(outgoing_messages, last_activity, nonce)
                    /\ callbacks' = RecordPending(callbacks, nonce, nonce)
                    /\ last_activity' = StoreSnapshot("set", last_activity)
                    /\ submitted' = Append(submitted,
                           [nonce |-> nonce, activity |-> last_activity,
                            by |-> "loop"])
                    /\ fired' = Append(fired, <<>>)
                    /\ reconn' = [upto |-> Len(submitted) + 1,
                                  activity |-> last_activity]
               ELSE /\ UNCHANGED <<outgoing_messages, callbacks, last_activity,
                                   submitted, fired>>
                    /\ reconn' = IF ret = Ok
                                 THEN [upto |-> Len(submitted), activity |-> NULL]
                                 ELSE reconn
    /\ UNCHANGED <<auto_reconnect, pc, callerVars, writes, drain, rd, faults>>
    /\ UNCHANGED dataVars

\* Run, transport not open, auto_reconnect not set: sleep 100 ms and retry.
RunWaitClosed ==
    /\ pc = "top"
    /\ ~IsOpen
    /\ ~auto_reconnect
    /\ UNCHANGED vars

\* Run, transport open: go on to the drain loop.
RunCheckOpen ==
    /\ pc = "top"
    /\ IsOpen
    /\ pc' = "drain"
    /\ drain' = [start |-> Len(writes), k |-> Len(outgoing_messages)]
    /\ conn' = NoConn
    /\ UNCHANGED <<pipeVars, outgoing_messages, callbacks, last_activity,
                   auto_reconnect, callerVars, submitted, fired, writes,
                   reconn, events, rd, faults>>
    /\ UNCHANGED dataVars

\* A dispatch that invokes every pending continuation, whatever the nonce.
DispatchFired_Broadcast(cbs, nonce, result) ==
    [i \in 1..Len(fired) |->
        IF \E n \in DOMAIN cbs : cbs[n] = i THEN Append(fired[i], result)
        ELSE fired[i]]

\* callbacks[nonce](result, msg) when callbacks.contains(nonce): the record of
\* invocations after the dispatch.
DispatchFired(cbs, nonce, result) ==
    IF nonce \in DOMAIN cbs
    THEN [fired EXCEPT ![cbs[nonce]] = Append(@, result)]
    ELSE fired

\* A dispatch that leaves the entry in the table.
DispatchErase_Keep(cbs, nonce) == cbs

\* callbacks.erase(nonce) when callbacks.contains(nonce): the table after the
\* dispatch.
DispatchErase(cbs, nonce) ==
    IF nonce \in DOMAIN cbs THEN MapErase(cbs, nonce) ELSE cbs

\* A drain loop that takes the newest entry.
DrainFront_Back(queue) == queue[Len(queue)]

\* The message the drain loop takes: outgoing_messages.front().
DrainFront(queue) == Head(queue)

\* A drain loop whose pop drops everything that is queued.
DrainPop_DropAll(queue) == <<>>

\* The queue after outgoing_messages.pop().
DrainPop(queue) == Tail(queue)

\* while (outgoing_messages.size() > 0)
DrainContinues(queue) == Len(queue) > 0

\* One pass of the drain loop's body: front, pop, Pipe::Write; a failed write
\* is dispatched to the entry's continuation.  writeOk is what WriteFile does.
RunDrainWrite ==
    /\ pc = "drain"
    /\ DrainContinues(outgoing_messages)
    /\ LET msg == DrainFront(outgoing_messages)
       IN  /\ outgoing_messages' = DrainPop(outgoing_messages)
           /\ \E writeOk \in BOOLEAN :
                /\ ~writeOk => faults < MaxFaults
                /\ writes' = Append(writes,
                       [op_code |-> msg.op_code, message |-> msg.message,
                        ok |-> writeOk])
                /\ faults' = IF writeOk THEN faults ELSE faults + 1
                /\ IF writeOk
                   THEN /\ hostSeen' = hostSeen \cup {ExtractNonce(msg.message)}
                        /\ UNCHANGED <<callbacks, fired>>
                   ELSE /\ fired' = DispatchFired(callbacks, msg.nonce,
                               WritePipeFailed)
                        /\ callbacks' = DispatchErase(callbacks, msg.nonce)
                        /\ UNCHANGED hostSeen
    /\ UNCHANGED <<pipe_handle, alive, last_activity, auto_reconnect, pc,
                   callerVars, submitted, drain, reconn, events, conn, rd>>
    /\ UNCHANGED dataVars

\* The drain loop's condition is false: go on to the read.
RunDrainDone ==
    /\ pc = "drain"
    /\ ~DrainContinues(outgoing_messages)
    /\ pc' = "read"
    /\ UNCHANGED <<pipeVars, outgoing_messages, callbacks, last_activity,
                   auto_reconnect, callerVars, submitted, fired, writes, drain,
                   reconn, events, conn, rd, faults>>
    /\ UNCHANGED dataVars

\* A frame of the host: a response echoing a nonce it received on this pipe
\* (with or without the error marker, and possibly more than once), or a bare
\* dispatch, which has no nonce.
HostFrames ==
    {[op_code |-> 1, message |-> [nonce |-> n, evt |-> e]] :
        n \in hostSeen, e \in BOOLEAN}
    \cup {[op_code |-> 2, message |-> [nonce |-> NoNonce, evt |-> e]] :
             e \in BOOLEAN}

\* A classification that looks at the error marker only.
ClassifySuccess_MarkerOnly(msg) == ~msg.message.evt

\* auto success = msg.message.find("\"evt\":\"ERROR\"") == npos
\*                && msg.op_code != 2; evt says that the payload holds the
\* marker.
ClassifySuccess(msg) == ~msg.message.evt /\ msg.op_code # 2

\* The result that the log_callback call after the read is given: the
\* read's result when it is not Ok, else Ok or UnknownError by the
\* classification of the frame.
ReadLogged(result, msg) ==
    IF result # Ok THEN result
    ELSE IF ClassifySuccess(msg) THEN Ok ELSE UnknownError

\* Pipe::Read(&msg, true) returned ReadPipeNoData.  When IsOpen still holds
\* the loop continues with its next iteration; when the pipe has just broken
\* the loop falls through to the log call and the dispatch.
RunReadNoData ==
    /\ pc = "read"
    /\ \E breaks \in BOOLEAN :
        /\ breaks => faults < MaxFaults
        /\ alive' = ~breaks
        /\ faults' = IF breaks THEN faults + 1 ELSE faults
        /\ pc' = IF breaks THEN "dispatch" ELSE "top"
        /\ rd' = IF breaks
                 THEN [result |-> ReadPipeNoData, msg |-> NoMsg,
                       logged |-> ReadLogged(ReadPipeNoData, NoMsg)]
                 ELSE NoRead
        /\ drain' = IF breaks THEN drain ELSE NoDrain
        /\ reconn' = IF breaks THEN reconn ELSE NoReconn
    /\ UNCHANGED <<pipe_handle, hostSeen, outgoing_messages, callbacks,
                   last_activity, auto_reconnect, callerVars, submitted, fired,
                   writes, events, conn>>
    /\ UNCHANGED dataVars

\* Pipe::Read(&msg, true) returned ReadPipeFailed: the pipe is closed and
\* Disconnected raised; msg.nonce stays empty.
RunReadFailed ==
    /\ pc = "read"
    /\ faults < MaxFaults
    /\ faults' = faults + 1
    /\ ClosePipe
    /\ events' = Append(events, Disconnected)
    /\ rd' = [result |-> ReadPipeFailed, msg |-> NoMsg,
              logged |-> ReadLogged(ReadPipeFailed, NoMsg)]
    /\ pc' = "dispatch"
    /\ UNCHANGED <<outgoing_messages, callbacks, last_activity, auto_reconnect,
                   callerVars, submitted, fired, writes, drain, reconn, conn>>
    /\ UNCHANGED dataVars

\* Pipe::Read(&msg, true) returned Ok with a frame of the host; msg.nonce is
\* what the regex finds in its payload.
RunReadFrame ==
    /\ pc = "read"
    /\ \E msg \in HostFrames :
        rd' = [result |-> Ok, msg |-> msg, logged |-> ReadLogged(Ok, msg)]
    /\ pc' = "dispatch"
    /\ UNCHANGED <<pipeVars, outgoing_messages, callbacks, last_activity,
                   auto_reconnect, callerVars, submitted, fired, writes, drain,
                   reconn, events, conn, faults>>
    /\ UNCHANGED dataVars

\* The end of the iteration: the continuation recorded under msg.nonce, if
\* any, is invoked with the read's result and erased; then the loop sleeps.
RunDispatch ==
    /\ pc = "dispatch"
    /\ LET nonce == ExtractNonce(rd.msg.message)
       IN  /\ fired' = DispatchFired(callbacks, nonce, rd.result)
           /\ callbacks' = DispatchErase(callbacks, nonce)
    /\ rd' = NoRead
    /\ pc' = "top"
    /\ drain' = NoDrain
    /\ reconn' = NoReconn
    /\ UNCHANGED <<pipeVars, outgoing_messages, last_activity, auto_reconnect,
                   callerVars, submitted, writes, events, conn, faults>>
    /\ UNCHANGED dataVars

\* -------------------------------------------------------------- the host
\* The host closes its end of the pipe while the handle stays set.  The client
\* sees it only at its next IsOpen check, at the top of the loop or after a
\* read that found no data (RunReadNoData).
PipeBreak ==
    /\ IsOpen
    /\ pc = "top"
    /\ faults < MaxFaults
    /\ faults' = faults + 1
    /\ alive' = FALSE
    /\ UNCHANGED <<pipe_handle, hostSeen, outgoing_messages, callbacks,
                   last_activity, auto_reconnect, pc, callerVars, submitted,
                   fired, writes, drain, reconn, events, conn, rd>>
    /\ UNCHANGED dataVars

\* ----------------------------------------------------------- specification
Next ==
    \/ UpdateActivity
    \/ ClearActivity
    \/ CallerRecord
    \/ MainConnect
    \/ RunReconnect
    \/ RunWaitClosed
    \/ RunCheckOpen
    \/ RunDrainWrite
    \/ RunDrainDone
    \/ RunReadNoData
    \/ RunReadFailed
    \/ RunReadFrame
    \/ RunDispatch
    \/ PipeBreak

Spec == Init /\ [][Next]_vars

\* ------------------------------------------------------------------ claims
\* The nonces of the messages still queued.
QueuedNonces == {outgoing_messages[j].nonce : j \in 1..Len(outgoing_messages)}

\* The caller's submissions whose call has returned.
Completed ==
    {i \in CallerSubmissions : ~(cpc = "queued" /\ submitted[i].nonce = call.nonce)}

SetMax(S) == CHOOSE m \in S : \A x \in S : x <= m

\* The frame the drain loop writes for the i-th submission.
FrameOf(i) ==
    [op_code |-> 1,
     message |-> BuildPayload(submitted[i].activity, submitted[i].nonce)]

\* The frame of the i-th write of the drain loop.
Written(w, i) == [op_code |-> w[i].op_code, message |-> w[i].message]

\* C1: every continuation is invoked eventually, in particular that of a
\* command the transport accepted.  Its safety core: the continuation of a
\* command that was written successfully, once recorded as pending, can still be
\* invoked, because the host of the current connection has received the
\* command (its response invokes it) or the response is being dispatched.  No
\* step of the engine invokes a continuation outside these cases, so a state
\* that breaks this has dropped it.
C1_NoContinuationDropped ==
    \A i \in 1..Len(writes) :
        (writes[i].ok /\ fired[i] = <<>> /\ submitted[i].nonce \in DOMAIN callbacks) =>
            \/ submitted[i].nonce \in hostSeen
            \/ (pc = "dispatch" /\ rd.msg.message.nonce = submitted[i].nonce)

\* C2: no continuation is invoked more than once, whatever the writes, the
\* responses (duplicates included), the reconnects and the interleaving of
\* the submissions with the loop's steps.
C2_AtMostOnce == \A i \in 1..Len(fired) : Len(fired[i]) <= 1

\* C2 witness: a second response carrying the nonce of a continuation that has
\* already been invoked is in the loop's hands.
C2_Witness ==
    /\ pc = "dispatch"
    /\ rd.result = Ok
    /\ \E i \in 1..Len(submitted) :
        /\ submitted[i].nonce = rd.msg.message.nonce
        /\ fired[i] = <<Ok>>

\* C3: the dispatch of a frame that was read invokes exactly the continuation
\* recorded under the frame's nonce, once, and removes that entry; a frame
\* whose nonce is absent or matches no pending token invokes nothing and
\* leaves the table as it is.
C3_Correlation ==
    [][(pc = "dispatch" /\ pc' = "top" /\ rd.result = Ok) =>
        LET n == rd.msg.message.nonce
        IN  IF n \in DOMAIN callbacks
            THEN /\ fired' = [fired EXCEPT ![callbacks[n]] = Append(@, Ok)]
                 /\ callbacks' = [x \in DOMAIN callbacks \ {n} |-> callbacks[x]]
            ELSE /\ fired' = fired
                 /\ callbacks' = callbacks]_vars

\* C3 witness: a response was matched; its continuation got Ok and its entry
\* is gone while another call is still pending.
C3_Witness ==
    \E i \in 1..Len(submitted) :
        /\ fired[i] = <<Ok>>
        /\ submitted[i].nonce \notin DOMAIN callbacks
        /\ DOMAIN callbacks # {}

\* C4: the drain loop writes the queued commands in submission order, each
\* with the payload and nonce of its own submission, and leaves the queue
\* empty: what was written followed by what is queued is what was submitted,
\* and a drain pass that began with k entries ends with those k written and
\* nothing queued.
C4_DrainFifoComplete ==
    /\ [](/\ Len(writes) + Len(outgoing_messages) = Len(submitted)
          /\ \A i \in 1..Len(writes) : Written(writes, i) = FrameOf(i)
          /\ \A j \in 1..Len(outgoing_messages) :
                /\ outgoing_messages[j].nonce = submitted[Len(writes) + j].nonce
                /\ outgoing_messages[j].message = FrameOf(Len(writes) + j).message)
    /\ [][(pc = "drain" /\ pc' = "read") =>
            /\ outgoing_messages' = <<>>
            /\ Len(writes') >= drain.start + drain.k
            /\ \A j \in 1..drain.k :
                  Written(writes', drain.start + j) = FrameOf(drain.start + j)]_vars

\* C4 witness: a drain pass that began with two queued commands has ended.
C4_Witness ==
    /\ pc = "read"
    /\ drain.k >= 2
    /\ Len(writes) = drain.start + drain.k
    /\ outgoing_messages = <<>>

\* A step of the thread of main and Run that calls Connect.
ConnectStep == MainConnect \/ RunReconnect

\* C5: Connect returns Ok and raises exactly one Connected event when the
\* frame read after the handshake write has opCode 1; with any other opCode
\* it returns HandshakeFailed and raises no event.
C5_Handshake ==
    [][ConnectStep =>
        /\ (conn'.op = 1 =>
                conn'.ret = Ok /\ events' = Append(events, Connected))
        /\ (conn'.op \in ReplyOps \ {1} =>
                conn'.ret = HandshakeFailed /\ events' = events)]_vars

\* C5 witness: a Connect that read a reply with opCode 1 has returned.
C5_Witness ==
    /\ conn.op = 1
    /\ conn.ret = Ok
    /\ Len(events) > 0
    /\ Last(events) = Connected

\* C6 as claimed: whenever Connect got as far as waiting for the reply, every
\* outcome but a frame with opCode 1 makes it return HandshakeFailed, a failed
\* read included.
C6_AnyOtherOutcomeIsHandshakeFailed ==
    conn.failed \in {"read", "none"} =>
        \/ (conn.op = 1 /\ conn.ret = Ok)
        \/ conn.ret = HandshakeFailed

\* C6 as amended: a reply frame with an opCode other than 1 makes Connect
\* return HandshakeFailed; a failed read of the reply makes Connect return the
\* read's own result, ReadPipeFailed; neither is Ok.
C6_ReadFailureIsReturned ==
    /\ (conn.failed = "read" => conn.ret = ReadPipeFailed /\ conn.op = NoOp)
    /\ (conn.failed = "none" /\ conn.op # 1 => conn.ret = HandshakeFailed)
    /\ (conn.ret = HandshakeFailed => conn.failed = "none" /\ conn.op # 1)

\* C6 witness: a Connect whose read of the reply failed has returned.
C6_Witness ==
    /\ conn.failed = "read"
    /\ conn.ret = ReadPipeFailed
    /\ pipe_handle

\* C7: after a read failure closed the pipe and the loop reconnected, the
\* retained activity is written exactly once because of that reconnect:
\* among the commands that were queued when the reconnect step ended, the
\* drain pass that follows writes exactly one carrying the retained activity.
C7_ResubmittedOnce ==
    (/\ pc = "read"
     /\ reconn.activity # NULL
     /\ Len(events) >= 2
     /\ events[Len(events) - 1] = Disconnected
     /\ Last(events) = Connected)
    => Cardinality({i \in (drain.start + 1)..Len(writes) :
            /\ i <= reconn.upto
            /\ writes[i].message.activity = reconn.activity}) = 1

LastCompletedIsClear ==
    Completed # {} /\ submitted[SetMax(Completed)].activity = EMPTY

C10_SubmissionFrame ==
    [][cpc' # cpc =>
        /\ UNCHANGED <<pipe_handle, alive, hostSeen, writes, events, conn, pc, rd>>
        /\ \A i \in 1..Len(fired) : fired'[i] = fired[i]
        /\ \A n \in DOMAIN callbacks :
              n \in DOMAIN callbacks' /\ callbacks'[n] = callbacks[n]
        /\ (cpc = "idle" =>
              /\ Len(outgoing_messages') = Len(outgoing_messages) + 1
              /\ Front(outgoing_messages') = outgoing_messages
              /\ Last(outgoing_messages').op_code = 1
              /\ Last(outgoing_messages').message.nonce = Last(outgoing_messages').nonce
              /\ \A i \in 1..Len(submitted) :
                    submitted[i].nonce # Last(outgoing_messages').nonce
              /\ callbacks' = callbacks
              /\ last_activity' = last_activity)
        /\ (cpc = "queued" =>
              /\ outgoing_messages' = outgoing_messages
              /\ DOMAIN callbacks' = DOMAIN callbacks \cup {call.nonce}
              /\ last_activity' = IF call.kind = "clear" THEN NULL ELSE call.activity)]_vars

\* C10 witness: a submission has returned while its command is still queued
\* and its continuation, recorded, has not been invoked.
C10_Witness ==
    /\ cpc = "idle"
    /\ \E i \in Completed :
        /\ submitted[i].nonce \in QueuedNonces
        /\ submitted[i].nonce \in DOMAIN callbacks
        /\ fired[i] = <<>>

\* The caller thread stands at line 832 (869 in ClearActivity): its next
\* statement assigns into callbacks.  The code acquires no lock before it.
CallerAtTable == cpc = "queued"

\* The loop thread stands at line 942: its next statements look the nonce up
\* in callbacks, call the entry and erase it.  No lock is acquired either.
LoopAtTable == pc = "dispatch"

\* C11: the pending-call table is never accessed by the loop while a
\* submission is modifying it: no state has the caller thread at its
\* assignment into the table and the loop thread at its lookup and erase in
\* the same table, both free to run.
C11_MutualExclusion == ~(CallerAtTable /\ LoopAtTable)

\* C12: a response that matches a pending token and carries the error marker
\* invokes that token's continuation with a failure outcome, never with Ok.
C12_ErrorMarkerIsFailure ==
    [][(/\ pc = "dispatch"
        /\ pc' = "top"
        /\ rd.result = Ok
        /\ rd.msg.message.evt
        /\ rd.msg.message.nonce \in DOMAIN callbacks)
       => Last(fired'[callbacks[rd.msg.message.nonce]]) # Ok]_vars

\* The submissions whose continuation is recorded and has not been invoked.
LivePending ==
    {i \in 1..Len(submitted) :
        submitted[i].nonce \in DOMAIN callbacks /\ fired[i] = <<>>}

\* C13: the table has one entry per token, the entry of a token is that of
\* the submission that drew it, no entry stays for a continuation that has
\* been invoked, and a submission that has returned and whose continuation
\* has not been invoked has its entry.
C13_PendingTable ==
    /\ \A n \in DOMAIN callbacks :
          /\ callbacks[n] \in 1..Len(submitted)
          /\ submitted[callbacks[n]].nonce = n
          /\ fired[callbacks[n]] = <<>>
    /\ Cardinality(DOMAIN callbacks) = Cardinality(LivePending)
    /\ \A i \in 1..Len(submitted) :
          (fired[i] = <<>> /\ ~(cpc = "queued" /\ call.nonce = submitted[i].nonce))
              => submitted[i].nonce \in DOMAIN callbacks

\* C13 witness: one continuation has been invoked and its entry is gone,
\* another submission's entry is still in the table.
C13_Witness ==
    /\ \E i \in 1..Len(submitted) :
          fired[i] # <<>> /\ submitted[i].nonce \notin DOMAIN callbacks
    /\ LivePending # {}
    /\ cpc = "idle"

\* C19: a failed write in the drain loop invokes the continuation recorded
\* for the entry with WritePipeFailed and erases it, leaves the entries
\* behind it queued and the loop in its drain pass; the pass then writes each
\* of them: when it ends, every entry it began with has had its write.
C19_WriteFailureContinuesDrain ==
    /\ [][(pc = "drain" /\ Len(writes') = Len(writes) + 1 /\ ~Last(writes').ok) =>
            LET msg == Head(outgoing_messages)
            IN  /\ pc' = "drain"
                /\ outgoing_messages' = Tail(outgoing_messages)
                /\ (msg.nonce \in DOMAIN callbacks =>
                      /\ fired' = [fired EXCEPT ![callbacks[msg.nonce]] =
                                      Append(@, WritePipeFailed)]
                      /\ msg.nonce \notin DOMAIN callbacks'
                      /\ \A n \in DOMAIN callbacks \ {msg.nonce} :
                            n \in DOMAIN callbacks' /\ callbacks'[n] = callbacks[n])
                /\ (msg.nonce \notin DOMAIN callbacks =>
                      fired' = fired /\ callbacks' = callbacks)]_vars
    /\ [][(pc = "drain" /\ pc' = "read") =>
            /\ Len(writes) >= drain.start + drain.k
            /\ outgoing_messages = <<>>]_vars

\* C19 witness: a drain pass that began with two entries has ended; the write
\* of the first failed and its continuation got WritePipeFailed, the second
\* was written after it.
C19_Witness ==
    /\ pc = "read"
    /\ drain.k >= 2
    /\ Len(writes) >= drain.start + 2
    /\ ~writes[drain.start + 1].ok
    /\ fired[drain.start + 1] = <<WritePipeFailed>>
    /\ writes[drain.start + 2].ok

\* ------------------------------------------------------------------- Party
\* The sizes a caller passes (int): a negative one, zero, positive ones.
PartySizes == -1..MaxPartySize

\* assert(size >= 0) of SetCurrentSize
SetCurrentSizeAsserts(size) == size >= 0

\* assert(size >= 0 && size >= current_size) of SetMaxSize
SetMaxSizeAsserts(size) == size >= 0 /\ size >= party.current_size

\* Party::SetCurrentSize.  A failed assert aborts the program; with NDEBUG
\* the assert is not compiled and the assignment always happens.
SetCurrentSize(size) ==
    /\ ~aborted
    /\ IF ndebug \/ SetCurrentSizeAsserts(size)
       THEN party' = [party EXCEPT !.current_size = size] /\ UNCHANGED aborted
       ELSE aborted' = TRUE /\ UNCHANGED party
    /\ UNCHANGED <<ndebug, outsideParty>>

\* Party::SetMaxSize.
SetMaxSize(size) ==
    /\ ~aborted
    /\ IF ndebug \/ SetMaxSizeAsserts(size)
       THEN party' = [party EXCEPT !.max_size = size] /\ UNCHANGED aborted
       ELSE aborted' = TRUE /\ UNCHANGED party
    /\ UNCHANGED <<ndebug, outsideParty>>

\* A Party on its own, in a build with or without assertions; the engine
\* is idle.
InitParty ==
    /\ EngineInit
    /\ auto_reconnect
    /\ PartyInit
    /\ ndebug \in BOOLEAN
    /\ FrameInit
    /\ JsonInit

NextParty ==
    \E size \in PartySizes : SetCurrentSize(size) \/ SetMaxSize(size)

SpecParty == InitParty /\ [][NextParty]_vars

\* C16: after any sequence of accepted SetCurrentSize and SetMaxSize calls,
\* in either order, a Party whose max size was set holds 0 <= current_size
\* <= max_size: a call that would make current exceed max is rejected.
\* Stated for the build that keeps the assertions, the one that rejects.
C16_CurrentWithinMax ==
    (~ndebug /\ ~aborted /\ party.max_size > 0) =>
        (0 <= party.current_size /\ party.current_size <= party.max_size)

\* ------------------------------------------------------------------ frames
\* Sequences over S of length at most n.
SeqUpTo(S, n) == UNION {[1..k -> S] : k \in 0..n}

\* opCodes handed to Write: the protocol's three and two that fill more than
\* one byte (0x0102, 0x01020304).
FrameOps == {0, 1, 2, 258, 16909060}

\* The bytes a payload is made of: '{' and '}'.
PayloadBytes == {123, 125}

\* A failed big-endian layout of a 32-bit value.
U32Bytes_BigEndian(n) == [i \in 1..4 |-> (n \div (256 ^ (4 - i))) % 256]

\* std::memcpy(dst, &value, 4) of a uint32_t: its four bytes in memory, on
\* the little-endian targets Windows runs on.
U32Bytes(n) == [i \in 1..4 |-> (n \div (256 ^ (i - 1))) % 256]

\* std::bit_cast<uint32_t>(bytes): the value of four bytes in memory.
U32Value(b) == b[1] + b[2] * 256 + b[3] * 65536 + b[4] * 16777216

\* The buffer WindowsPipe::Write fills and hands to WriteFile: opCode at
\* offset 0, length at offset 4, the message at offset 8.  The length is
\* static_cast<uint32_t>(message.length()), which is the length itself for
\* every message shorter than 2^32 bytes.
WriteBuffer(op_code, message) ==
    LET length == Len(message)
    IN  [i \in 1..(8 + length) |->
            IF i <= 4 THEN U32Bytes(op_code)[i]
            ELSE IF i <= 8 THEN U32Bytes(length)[i - 4]
            ELSE message[i - 8]]

\* WindowsPipe::ReadBytes on the readable bytes w, for n bytes.  With peek,
\* PeekNamedPipe reports the bytes available: none gives ReadPipeNoData,
\* any gives the read.  ReadFile hands over at most what is there; fewer
\* than n bytes is ReadPipeFailed and those bytes are gone.
ReadBytes(w, n, peek) ==
    IF peek /\ Len(w) = 0
    THEN [result |-> ReadPipeNoData, bytes |-> <<>>, rest |-> w]
    ELSE IF Len(w) >= n
    THEN [result |-> Ok, bytes |-> SubSeq(w, 1, n),
          rest |-> SubSeq(w, n + 1, Len(w))]
    ELSE [result |-> ReadPipeFailed, bytes |-> <<>>, rest |-> <<>>]

\* WindowsPipe::Read on the readable bytes w: the opCode, the length, then
\* the payload, each with its own peek; what it returns, what it stored in
\* *message and the bytes left in the pipe.
PipeRead(w, peek) ==
    LET a == ReadBytes(w, 4, peek)
    IN  IF a.result # Ok
        THEN [result |-> a.result, op_code |-> NoOp, message |-> <<>>,
              rest |-> a.rest]
        ELSE LET b == ReadBytes(a.rest, 4, peek)
             IN  IF b.result # Ok
                 THEN [result |-> b.result, op_code |-> NoOp, message |-> <<>>,
                       rest |-> b.rest]
                 ELSE LET op == U32Value(a.bytes)
                          c  == ReadBytes(b.rest, U32Value(b.bytes), peek)
                      IN  [result |-> c.result, op_code |-> op,
                           message |-> c.bytes, rest |-> c.rest]

\* Pipe::Write(sent.op_code, sent.message): the buffer enters the pipe.
PipeWrite ==
    /\ ~sent.written
    /\ sent' = [sent EXCEPT !.written = TRUE]
    /\ coming' = coming \o WriteBuffer(sent.op_code, sent.message)
    /\ UNCHANGED <<wire, got, outsideFrame>>

\* The first k bytes in transit become readable: a frame may arrive whole or
\* in pieces.
HostDeliver ==
    \E k \in 1..Len(coming) :
        /\ wire' = wire \o SubSeq(coming, 1, k)
        /\ coming' = SubSeq(coming, k + 1, Len(coming))
        /\ UNCHANGED <<sent, got, outsideFrame>>

\* Pipe::Read(&msg, true), the poll of the Run loop.
ReadPeek ==
    LET r == PipeRead(wire, TRUE)
    IN  /\ got' = [result |-> r.result, op_code |-> r.op_code,
                   message |-> r.message, peek |-> TRUE]
        /\ wire' = r.rest
        /\ UNCHANGED <<sent, coming, outsideFrame>>

\* Pipe::Read(&msg), the blocking read of Connect, once the bytes it waits
\* for are all there.
ReadBlocking ==
    /\ Len(wire) >= 8
    /\ Len(wire) >= 8 + U32Value(SubSeq(wire, 5, 8))
    /\ LET r == PipeRead(wire, FALSE)
       IN  /\ got' = [result |-> r.result, op_code |-> r.op_code,
                      message |-> r.message, peek |-> FALSE]
           /\ wire' = r.rest
    /\ UNCHANGED <<sent, coming, outsideFrame>>

\* One frame, of any opCode and payload, through an empty pipe; the engine
\* is idle.
InitFrame ==
    /\ EngineInit
    /\ auto_reconnect
    /\ PartyInit
    /\ ndebug = FALSE
    /\ sent \in [op_code : FrameOps, message : SeqUpTo(PayloadBytes, MaxPayload),
                 written : {FALSE}]
    /\ coming = <<>>
    /\ wire = <<>>
    /\ got = NoGot
    /\ JsonInit

NextFrame == PipeWrite \/ HostDeliver \/ ReadPeek \/ ReadBlocking

SpecFrame == InitFrame /\ [][NextFrame]_vars

\* C14: Write(opCode, payload) produces the four bytes of the opCode, least
\* significant first, the four bytes of the payload's length, least
\* significant first, and the payload; a non-peek Read of exactly these
\* bytes returns Ok with that opCode and that payload and leaves nothing.
C14_FrameRoundTrip ==
    /\ [][(~sent.written /\ sent'.written) =>
            /\ Len(coming') = 8 + Len(sent.message)
            /\ \A i \in 1..4 :
                  /\ coming'[i] = (sent.op_code \div (256 ^ (i - 1))) % 256
                  /\ coming'[4 + i] = (Len(sent.message) \div (256 ^ (i - 1))) % 256
            /\ \A j \in 1..Len(sent.message) : coming'[8 + j] = sent.message[j]]_vars
    /\ [][(/\ ReadBlocking
           /\ sent.written
           /\ coming = <<>>
           /\ Len(wire) = 8 + Len(sent.message))
          => /\ got'.result = Ok
             /\ got'.op_code = sent.op_code
             /\ got'.message = sent.message
             /\ wire' = <<>>]_vars

\* C14 witness: a frame with a multi-byte opCode and a payload of two bytes
\* was written and read back by a non-peek Read.
C14_Witness ==
    /\ sent.written
    /\ sent.op_code > 65535
    /\ Len(sent.message) >= 2
    /\ ~got.peek
    /\ got.result = Ok
    /\ got.message = sent.message
    /\ wire = <<>>
    /\ coming = <<>>

\* C20: a peek Read that returns ReadPipeNoData has consumed nothing: the
\* readable bytes after it are the readable bytes before it.  Stated for the
\* arrivals the claim names, a frame with a payload of which nothing, or the
\* 8-byte header alone, is readable when the loop polls.
C20_NoDataConsumesNothing ==
    [][(/\ ReadPeek
        /\ got'.result = ReadPipeNoData
        /\ Len(sent.message) > 0
        /\ Len(wire) \in {0, 8})
       => wire' = wire]_vars

\* ------------------------------------------------------------------ tokens
HexChars == <<"0", "1", "2", "3", "4", "5", "6", "7",
              "8", "9", "a", "b", "c", "d", "e", "f">>

\* get_digit for one value of distribution(mt), 0..15: '0' + value below
\* ten, 'a' + (value - 10) from ten on.
GetDigit(value) == HexChars[value + 1]

\* for (int i = 0; i < n; i++) result += get_digit(), on the draws from
\* position from on.
Digits(draw, from, n) == [i \in 1..n |-> GetDigit(draw[from + i - 1])]

\* UUID::GenerateUUIDv4 for the 31 values its calls of distribution(mt)
\* return, in order.
UUIDv4(draw) ==
    Digits(draw, 1, 8) \o <<"-">> \o Digits(draw, 9, 4) \o <<"-", "4">>
        \o Digits(draw, 13, 3) \o <<"-">> \o Digits(draw, 16, 4) \o <<"-">>
        \o Digits(draw, 20, 12)

\* Values the generator may hand to one call of GenerateUUIDv4: a sample of
\* the 16^31 sequences of draws.  Nothing in the code keeps two calls from
\* getting the same sequence: the generator is random, it is a function-local
\* static that the caller thread and the loop thread use without a lock, and
\* no generated token is compared with the live ones.
DrawSample ==
    {[i \in 1..31 |-> v] : v \in {0, 9, 10, 15}}
        \cup {[i \in 1..31 |-> (7 * i) % 16]}

\* The tokens of the commands still queued.
QueuedTokens == {outgoing_messages[j].nonce : j \in 1..Len(outgoing_messages)}

\* UpdateActivity with the token the generator's draws give: queue, record,
\* store.
TokenSubmit ==
    /\ Len(submitted) < MaxSubmit
    /\ \E draw \in DrawSample :
        LET nonce == UUIDv4(draw)
        IN  /\ outgoing_messages' = Enqueue(outgoing_messages, "A", nonce)
            /\ callbacks' = RecordPending(callbacks, nonce, Len(submitted) + 1)
            /\ last_activity' = StoreSnapshot("set", "A")
            /\ submitted' = Append(submitted,
                   [nonce |-> nonce, activity |-> "A", by |-> "caller"])
            /\ fired' = Append(fired, <<>>)
    /\ UNCHANGED <<pipeVars, auto_reconnect, pc, callerVars, writes, drain,
                   reconn, events, conn, rd, faults, dataVars>>

\* The drain loop takes the oldest command and writes it.
TokenDrain ==
    /\ DrainContinues(outgoing_messages)
    /\ outgoing_messages' = DrainPop(outgoing_messages)
    /\ UNCHANGED <<pipeVars, callbacks, last_activity, auto_reconnect, pc,
                   callerVars, submitted, fired, writes, drain, reconn, events,
                   conn, rd, faults, dataVars>>

\* The response to a command that was written is read and dispatched.
TokenRespond ==
    /\ \E n \in DOMAIN callbacks \ QueuedTokens :
        /\ fired' = DispatchFired(callbacks, n, Ok)
        /\ callbacks' = DispatchErase(callbacks, n)
    /\ UNCHANGED <<pipeVars, outgoing_messages, last_activity, auto_reconnect,
                   pc, callerVars, submitted, writes, drain, reconn, events,
                   conn, rd, faults, dataVars>>

\* Submissions whose tokens come from the generator; the pipe is left out.
InitToken == EngineInit /\ auto_reconnect /\ DataInit

NextToken == TokenSubmit \/ TokenDrain \/ TokenRespond

SpecToken == InitToken /\ [][NextToken]_vars

\* C15: no two submissions whose continuations have not been invoked carry
\* the same nonce, so that recording a pending call never replaces the
\* continuation of another live submission.
C15_TokensUnique ==
    \A i, j \in 1..Len(submitted) :
        (i # j /\ fired[i] = <<>> /\ fired[j] = <<>>)
            => submitted[i].nonce # submitted[j].nonce

\* -------------------------------------------------------------------- JSON
\* JsonValue: the alternative of the variant that the constructor chosen by
\* overload resolution stores, and its value.  A JsonSerializable is held as
\* the sequence of members its ToJson puts, in order.
JString(text) == [kind |-> "string", v |-> text]
JNumber(n)    == [kind |-> "number", v |-> n]
JArray(items) == [kind |-> "array", v |-> items]
JObject(members) == [kind |-> "object", v |-> members]

\* One call writer->Put(key, value), as an element of such a sequence.
Member(key, value) == <<[key |-> key, value |-> value]>>

DecimalDigits == <<"0", "1", "2", "3", "4", "5", "6", "7", "8", "9">>

\* std::to_string of an integer: a minus sign for a negative value, then the
\* decimal digits, most significant first.
RECURSIVE to_string(_)
to_string(n) ==
    IF n < 0 THEN <<"-">> \o to_string(0 - n)
    ELSE IF n < 10 THEN <<DecimalDigits[n + 1]>>
    ELSE to_string(n \div 10) \o <<DecimalDigits[(n % 10) + 1]>>

\* What one call of JsonWriter::WriteRaw adds to the writer:
\* s.write(str, strlen(str)), for a str without a NUL character inside.
WriteRaw(str) == [s |-> str, strings |-> <<>>]

\* What two stretches of calls add, one after the other.
Then(first, second) ==
    [s |-> first.s \o second.s, strings |-> first.strings \o second.strings]

\* The string branch of JsonValue::ToJson: a quote, the characters of the
\* string as they are, a quote.
WriteString(text) ==
    [Then(WriteRaw(<<"\"">>), Then(WriteRaw(text), WriteRaw(<<"\"">>)))
        EXCEPT !.strings = <<text>>]

RECURSIVE ValueToJson(_)
RECURSIVE WriteItems(_, _)
RECURSIVE PutAll(_, _)

\* JsonWriter::Put and PendMember when current_object_sizes.back() is count:
\* a comma unless the member is the first of its object, the key, a colon;
\* Put writes the value after it.
Put(count, key, value) ==
    Then(IF count > 0 THEN WriteRaw(<<",">>) ELSE WriteRaw(<<>>),
         Then(WriteString(<<key>>), Then(WriteRaw(<<":">>), value)))

\* BeginObject, the Put calls of one ToJson and EndObject: BeginObject
\* pushes the count 0, every Put adds one to it, EndObject pops it.
WriteObject(members) ==
    Then(WriteRaw(<<"{">>), Then(PutAll(members, 1), WriteRaw(<<"}">>)))

\* JsonValue::ToJson, by the alternative held.
ValueToJson(value) ==
    CASE value.kind = "string" -> WriteString(value.v)
      [] value.kind = "number" -> WriteRaw(to_string(value.v))
      [] value.kind = "object" -> WriteObject(value.v)
      [] value.kind = "array"  ->
            Then(WriteRaw(<<"[">>), Then(WriteItems(value.v, 1), WriteRaw(<<"]">>)))

\* The loop of the vector branch, from item i on.
WriteItems(items, i) ==
    IF i > Len(items) THEN WriteRaw(<<>>)
    ELSE Then(ValueToJson(items[i]),
              Then(IF i + 1 <= Len(items) THEN WriteRaw(<<",">>)
                   ELSE WriteRaw(<<>>),
                   WriteItems(items, i + 1)))

\* The Put calls of an object from the i-th on; i - 1 members were put
\* before it.
PutAll(members, i) ==
    IF i > Len(members) THEN WriteRaw(<<>>)
    ELSE Then(Put(i - 1, members[i].key, ValueToJson(members[i].value)),
              PutAll(members, i + 1))

\* if (text.length() > 0) writer->Put(key, text)
PutText(key, text) ==
    IF Len(text) > 0 THEN Member(key, JString(text)) ELSE <<>>

\* A Timestamps that puts start whatever its value.
HasStart_Always(t) == TRUE

\* if (start > 0)
HasStart(t) == t.start > 0

TimestampsToJson(t) ==
    JObject(
        (IF HasStart(t) THEN Member("start", JNumber(t.start)) ELSE <<>>)
        \o (IF t.end > 0 THEN Member("end", JNumber(t.end)) ELSE <<>>))

PartyToJson(p) ==
    JObject(
        PutText("id", p.id)
        \o (IF p.current_size # 0 \/ p.max_size # 0
            THEN Member("size",
                     JArray(<<JNumber(p.current_size), JNumber(p.max_size)>>))
            ELSE <<>>))

AssetsToJson(a) ==
    JObject(
        PutText("large_image", a.large_image)
        \o PutText("large_text", a.large_text)
        \o PutText("small_image", a.small_image)
        \o PutText("small_text", a.small_text))

ButtonToJson(b) ==
    JObject(Member("label", JString(b.label)) \o Member("url", JString(b.url)))

ActivityToJson(a) ==
    LET j_buttons == [i \in 1..Len(a.buttons) |-> ButtonToJson(a.buttons[i])]
    IN  JObject(
            PutText("name", a.name)
            \o (IF a.client_id # 0
                THEN Member("client_id", JNumber(a.client_id)) ELSE <<>>)
            \o Member("type", JNumber(a.type))
            \o PutText("details", a.details)
            \o PutText("state", a.state)
            \o Member("timestamps", TimestampsToJson(a.timestamps))
            \o (IF Len(a.party) > 0
                THEN Member("party", PartyToJson(a.party[1])) ELSE <<>>)
            \o Member("assets", AssetsToJson(a.assets))
            \o (IF Len(j_buttons) > 0
                THEN Member("buttons", JArray(j_buttons)) ELSE <<>>))

\* The text of the writer UpdateActivity builds its message in.
\* PendMember("args") and the object begun after it write what a Put of
\* that object writes.
UpdateActivityJson(activity, pid, nonce) ==
    ValueToJson(JObject(
        Member("cmd", JString(<<"SET_ACTIVITY">>))
        \o Member("args", JObject(
               Member("pid", JNumber(pid))
               \o Member("activity", ActivityToJson(activity))))
        \o Member("nonce", JString(nonce))))

\* Texts a caller passes to a setter: plain, with a double quote, with a
\* backslash.
TextSample == {<<"a">>, <<"\"">>, <<"\\">>, <<"a", "\"", "b">>}

\* Values of the integer fields; of the activity types; of the process id;
\* of the generator's draws for the nonce of the message.
NumberSample == {0, 1, 12}
ActivityTypes == {0, 2, 3, 5}
Pids == {4711}
NonceDraws == {[i \in 1..31 |-> (7 * i) % 16]}

\* Setter calls made in all on the activity before it is serialized.
MaxSets == 2

\* A setter may be called: the activity was not serialized yet.
CanSet == sets < MaxSets /\ json = NewWriter /\ payload = NewWriter

HasParty == Len(act.party) > 0

ActivitySetClientId ==
    /\ CanSet
    /\ \E client_id \in NumberSample : act' = [act EXCEPT !.client_id = client_id]
    /\ sets' = sets + 1
    /\ UNCHANGED <<json, payload, outsideJson>>

\* assert(name.length() > 0) holds for the call.
ActivitySetName ==
    /\ CanSet
    /\ \E name \in TextSample : act' = [act EXCEPT !.name = name]
    /\ sets' = sets + 1
    /\ UNCHANGED <<json, payload, outsideJson>>

ActivitySetType ==
    /\ CanSet
    /\ \E type \in ActivityTypes : act' = [act EXCEPT !.type = type]
    /\ sets' = sets + 1
    /\ UNCHANGED <<json, payload, outsideJson>>

ActivitySetDetails ==
    /\ CanSet
    /\ \E details \in TextSample \cup {<<>>} :
        act' = [act EXCEPT !.details = details]
    /\ sets' = sets + 1
    /\ UNCHANGED <<json, payload, outsideJson>>

ActivitySetState ==
    /\ CanSet
    /\ \E state \in TextSample \cup {<<>>} : act' = [act EXCEPT !.state = state]
    /\ sets' = sets + 1
    /\ UNCHANGED <<json, payload, outsideJson>>

TimestampsSetStart ==
    /\ CanSet
    /\ \E seconds \in NumberSample :
        act' = [act EXCEPT !.timestamps.start = seconds]
    /\ sets' = sets + 1
    /\ UNCHANGED <<json, payload, outsideJson>>

TimestampsSetEnd ==
    /\ CanSet
    /\ \E seconds \in NumberSample :
        act' = [act EXCEPT !.timestamps.end = seconds]
    /\ sets' = sets + 1
    /\ UNCHANGED <<json, payload, outsideJson>>

\* SetParty with a new Party, or with nullptr.
ActivitySetParty ==
    /\ CanSet
    /\ \E party_ptr \in {<<>>, <<NewParty>>} :
        act' = [act EXCEPT !.party = party_ptr]
    /\ sets' = sets + 1
    /\ UNCHANGED <<json, payload, outsideJson>>

PartySetId ==
    /\ CanSet
    /\ HasParty
    /\ \E id \in TextSample \cup {<<>>} : act' = [act EXCEPT !.party[1].id = id]
    /\ sets' = sets + 1
    /\ UNCHANGED <<json, payload, outsideJson>>

\* Party::SetCurrentSize on the activity's party, for a call whose assertion
\* holds.
PartySetCurrentSize ==
    /\ CanSet
    /\ HasParty
    /\ \E size \in NumberSample :
        /\ size >= 0
        /\ act' = [act EXCEPT !.party[1].current_size = size]
    /\ sets' = sets + 1
    /\ UNCHANGED <<json, payload, outsideJson>>

\* Party::SetMaxSize on the activity's party, for a call whose assertion
\* holds.
PartySetMaxSize ==
    /\ CanSet
    /\ HasParty
    /\ \E size \in NumberSample :
        /\ size >= 0 /\ size >= act.party[1].current_size
        /\ act' = [act EXCEPT !.party[1].max_size = size]
    /\ sets' = sets + 1
    /\ UNCHANGED <<json, payload, outsideJson>>

AssetsSetLargeImage ==
    /\ CanSet
    /\ \E image \in TextSample \cup {<<>>} :
        act' = [act EXCEPT !.assets.large_image = image]
    /\ sets' = sets + 1
    /\ UNCHANGED <<json, payload, outsideJson>>

AssetsSetLargeImageText ==
    /\ CanSet
    /\ \E text \in TextSample \cup {<<>>} :
        act' = [act EXCEPT !.assets.large_text = text]
    /\ sets' = sets + 1
    /\ UNCHANGED <<json, payload, outsideJson>>

AssetsSetSmallImage ==
    /\ CanSet
    /\ \E image \in TextSample \cup {<<>>} :
        act' = [act EXCEPT !.assets.small_image = image]
    /\ sets' = sets + 1
    /\ UNCHANGED <<json, payload, outsideJson>>

AssetsSetSmallImageText ==
    /\ CanSet
    /\ \E text \in TextSample \cup {<<>>} :
        act' = [act EXCEPT !.assets.small_text = text]
    /\ sets' = sets + 1
    /\ UNCHANGED <<json, payload, outsideJson>>

\* AddButton(std::make_shared<Button>(label, url)), for a call whose
\* assertion buttons.size() < 2 holds.
ActivityAddButton ==
    /\ CanSet
    /\ Len(act.buttons) < 2
    /\ \E label \in TextSample, url \in TextSample :
        act' = [act EXCEPT !.buttons = Append(@, [label |-> label, url |-> url])]
    /\ sets' = sets + 1
    /\ UNCHANGED <<json, payload, outsideJson>>

ActivityClearButtons ==
    /\ CanSet
    /\ act' = [act EXCEPT !.buttons = <<>>]
    /\ sets' = sets + 1
    /\ UNCHANGED <<json, payload, outsideJson>>

\* JsonWriter writer; writer.Write(*activity);
WriterWrite ==
    /\ json = NewWriter
    /\ payload = NewWriter
    /\ json' = ValueToJson(ActivityToJson(act))
    /\ UNCHANGED <<act, sets, payload, outsideJson>>

\* The message UpdateActivity builds for the activity.
UpdateActivityMessage ==
    /\ json = NewWriter
    /\ payload = NewWriter
    /\ \E pid \in Pids, draw \in NonceDraws :
        payload' = UpdateActivityJson(act, pid, UUIDv4(draw))
    /\ UNCHANGED <<act, sets, json, outsideJson>>

\* One activity, set up by a few setter calls and then serialized; the
\* engine is idle.
InitJson ==
    /\ EngineInit
    /\ auto_reconnect
    /\ PartyInit
    /\ ndebug = FALSE
    /\ FrameInit
    /\ JsonInit

NextJson ==
    \/ ActivitySetClientId
    \/ ActivitySetName
    \/ ActivitySetType
    \/ ActivitySetDetails
    \/ ActivitySetState
    \/ TimestampsSetStart
    \/ TimestampsSetEnd
    \/ ActivitySetParty
    \/ PartySetId
    \/ PartySetCurrentSize
    \/ PartySetMaxSize
    \/ AssetsSetLargeImage
    \/ AssetsSetLargeImageText
    \/ AssetsSetSmallImage
    \/ AssetsSetSmallImageText
    \/ ActivityAddButton
    \/ ActivityClearButtons
    \/ WriterWrite
    \/ UpdateActivityMessage

SpecJson == InitJson /\ [][NextJson]_vars

\* The pieces of a text.
Pieces(text) == {text[i] : i \in 1..Len(text)}

\* The keys of the members that were not set on the activity: an empty
\* text, a zero number, a null party, no button; the size of a party on
\* which neither size was set.
UnsetKeys(a) ==
    (IF a.name = <<>> THEN {"name"} ELSE {})
    \cup (IF a.client_id = 0 THEN {"client_id"} ELSE {})
    \cup (IF a.details = <<>> THEN {"details"} ELSE {})
    \cup (IF a.state = <<>> THEN {"state"} ELSE {})
    \cup (IF a.timestamps.start = 0 THEN {"start"} ELSE {})
    \cup (IF a.timestamps.end = 0 THEN {"end"} ELSE {})
    \cup (IF Len(a.party) = 0 THEN {"party", "id", "size"}
          ELSE (IF a.party[1].id = <<>> THEN {"id"} ELSE {})
               \cup (IF a.party[1].current_size = 0 /\ a.party[1].max_size = 0
                     THEN {"size"} ELSE {}))
    \cup (IF a.assets.large_image = <<>> THEN {"large_image"} ELSE {})
    \cup (IF a.assets.large_text = <<>> THEN {"large_text"} ELSE {})
    \cup (IF a.assets.small_image = <<>> THEN {"small_image"} ELSE {})
    \cup (IF a.assets.small_text = <<>> THEN {"small_text"} ELSE {})
    \cup (IF a.buttons = <<>> THEN {"buttons", "label", "url"} ELSE {})

\* {"type":N,"timestamps":{},"assets":{}}
TypeOnlyText(type) ==
    <<"{", "\"", "type", "\"", ":">> \o to_string(type)
        \o <<",", "\"", "timestamps", "\"", ":", "{", "}">>
        \o <<",", "\"", "assets", "\"", ":", "{", "}", "}">>

\* C17: an Activity on which no optional field was set serializes to an
\* object with the members type, an empty timestamps object and an empty
\* assets object and nothing else; and whatever was set, the key of every
\* member that was not set is absent from the output, and no null is written.
C17_UnsetFieldsAbsent ==
    json # NewWriter =>
        /\ (act = [NewActivity EXCEPT !.type = act.type])
               => json.s = TypeOnlyText(act.type)
        /\ UnsetKeys(act) \cap Pieces(json.s) = {}
        /\ "null" \notin Pieces(json.s)

\* C17 witness: an activity on which nothing was set was serialized.
C17_Witness == json # NewWriter /\ act = NewActivity

\* The least element of a nonempty set of integers.
SetMin(S) == CHOOSE x \in S : \A y \in S : x <= y

\* The number of backslashes in a row right before position i.
BackslashRun(text, i) ==
    SetMax({k \in 0..(i - 1) : \A j \in (i - k)..(i - 1) : text[j] = "\\"})

\* The character an escape sequence of JSON stands for (RFC 8259, section
\* 7); the \u form does not occur in the texts here.
EscapeOf(c) ==
    CASE c \in {"\"", "\\", "/"} -> c
      [] c = "b" -> "U+0008"
      [] c = "f" -> "U+000C"
      [] c = "n" -> "U+000A"
      [] c = "r" -> "U+000D"
      [] c = "t" -> "U+0009"
      [] OTHER -> "invalid escape"

\* The string that the inside of a JSON string literal stands for.
RECURSIVE Unescaped(_)
Unescaped(raw) ==
    IF raw = <<>> THEN <<>>
    ELSE IF raw[1] = "\\"
         THEN <<EscapeOf(raw[2])>> \o Unescaped(SubSeq(raw, 3, Len(raw)))
         ELSE <<raw[1]>> \o Unescaped(Tail(raw))

Malformed == <<<<"malformed">>>>

\* The strings that the string literals of a JSON text stand for, in order,
\* from position i on and after those in acc: a literal runs from a quote
\* to the next quote that no backslash escapes.
RECURSIVE StringLiterals(_, _, _)
StringLiterals(text, i, acc) ==
    LET opens == {j \in i..Len(text) : text[j] = "\""}
    IN  IF opens = {} THEN acc
        ELSE LET from   == SetMin(opens)
                 closes == {j \in (from + 1)..Len(text) :
                               text[j] = "\"" /\ BackslashRun(text, j) % 2 = 0}
             IN  IF closes = {} THEN Malformed
                 ELSE StringLiterals(text, SetMin(closes) + 1,
                          Append(acc, Unescaped(
                              SubSeq(text, from + 1, SetMin(closes) - 1))))

\* C18: the string literals of the payload of a message, read by the rules
\* of JSON, are the strings that were written into it (keys and values, in
\* order): every text placed in the activity decodes back to itself, also
\* one with a double quote or a backslash in it.
C18_StringsDecodeBack ==
    payload # NewWriter => StringLiterals(payload.s, 1, <<>>) = payload.strings

\* ------------------------------------------------- the loop's iterations
\* A step of the caller thread.
CallerStep == cpc' # cpc

\* C21: a hard read failure of the poll step closes the transport and raises
\* Disconnected, once; the rest of the iteration raises no further event and
\* ends at the top of the loop with the transport not open; and from there,
\* with auto_reconnect set, the next thing the loop does is to call Connect.
C21_ReadFailureReconnects ==
    /\ [][(pc = "read" /\ rd'.result = ReadPipeFailed)
            => (/\ ~pipe_handle'
                /\ events' = Append(events, Disconnected)
                /\ pc' = "dispatch")]_vars
    /\ [][(pc = "dispatch" /\ rd.result = ReadPipeFailed)
            => (events' = events /\ ~IsOpen' /\ pc' \in {"dispatch", "top"})]_vars
    /\ [][(pc = "top" /\ ~IsOpen /\ auto_reconnect /\ ~CallerStep)
            => RunReconnect]_vars

\* C21 witness: after a Disconnected event the loop has called Connect, the
\* handshake succeeded and Connected was raised.
C21_Witness ==
    /\ Len(events) >= 2
    /\ events[Len(events) - 1] = Disconnected
    /\ Last(events) = Connected
    /\ conn.ret = Ok
    /\ pc = "top"

\* C22: the ReadPipeNoData result of the poll never reaches the application:
\* log_callback is not given it, and no continuation is invoked with it (the
\* event callback takes an Event and no Result).
C22_NoDataNeverSurfaces ==
    /\ rd.logged # ReadPipeNoData
    /\ \A i \in 1..Len(fired) :
           \A j \in 1..Len(fired[i]) : fired[i][j] # ReadPipeNoData

\* C24: a frame that the poll read is logged with Ok exactly when its
\* payload does not hold the error marker and its opCode is not 2, and with
\* UnknownError when it holds the marker or its opCode is 2.
C24_FrameClassification ==
    (pc = "dispatch" /\ rd.result = Ok) =>
        /\ rd.logged = Ok <=> (~rd.msg.message.evt /\ rd.msg.op_code # 2)
        /\ (rd.msg.message.evt \/ rd.msg.op_code = 2) => rd.logged = UnknownError

\* C24 witness: a frame with opCode 2 and no error marker was read and
\* logged.
C24_Witness ==
    /\ pc = "dispatch"
    /\ rd.result = Ok
    /\ rd.msg.op_code = 2
    /\ ~rd.msg.message.evt
    /\ rd.logged = UnknownError

\* The loop is at the top of an iteration and the transport is not open.
NotOpenAtTop == pc = "top" /\ ~IsOpen

\* No continuation is invoked in the step.
NoInvocation == \A i \in 1..Len(fired) : fired'[i] = fired[i]

\* The step resubmits the retained activity after a Connect that returned
\* Ok: one entry more at the end of the queue, one pending call more.
Resubmitted ==
    /\ conn'.ret = Ok
    /\ last_activity # NULL
    /\ Len(outgoing_messages') = Len(outgoing_messages) + 1
    /\ Front(outgoing_messages') = outgoing_messages
    /\ Last(outgoing_messages').message.activity = last_activity
    /\ DOMAIN callbacks' = DOMAIN callbacks \cup {Last(outgoing_messages').nonce}
    /\ \A n \in DOMAIN callbacks : callbacks'[n] = callbacks[n]

\* C23: an iteration that finds the transport not open goes back to the top
\* of the loop: no queued entry is written, the poll does not read, no
\* continuation is invoked, and the loop changes the queue and the pending
\* table only by the resubmission after a Connect that returned Ok; without
\* auto_reconnect there is no Connect, so no event and no change of the pipe.
C23_NotOpenSkipsIteration ==
    [][NotOpenAtTop =>
         /\ pc' = "top"
         /\ writes' = writes
         /\ rd' = rd
         /\ NoInvocation
         /\ \/ CallerStep
            \/ (outgoing_messages' = outgoing_messages /\ callbacks' = callbacks)
            \/ Resubmitted
         /\ ~auto_reconnect =>
                (conn' = conn /\ events' = events /\ pipe_handle' = pipe_handle)]_vars

\* C23 witness: the loop found the transport not open, connected and
\* resubmitted the retained activity, and is back at the top of the loop.
C23_Witness ==
    /\ pc = "top"
    /\ reconn # NoReconn
    /\ reconn.activity # NULL
    /\ conn.ret = Ok

\* C25: the drain loop writes a queued command only while the transport is
\* connected: the last lifecycle event is Connected, that is, a Connect
\* completed its handshake on the transport and the transport was not closed
\* since.
C25_WritesOnlyWhenConnected ==
    [][(Len(writes') = Len(writes) + 1 /\ Last(writes').ok)
         => (events # <<>> /\ Last(events) = Connected)]_vars

\* C26: when the loop takes an entry from the queue and its write fails, or
\* dispatches the first response to it, the continuation of the entry is in
\* the pending table and is invoked.
C26_PendingBeforeVisible ==
    /\ [][(Len(writes') = Len(writes) + 1 /\ ~Last(writes').ok)
            => LET nonce == DrainFront(outgoing_messages).nonce
               IN  /\ nonce \in DOMAIN callbacks
                   /\ Len(fired'[callbacks[nonce]])
                          = Len(fired[callbacks[nonce]]) + 1]_vars
    /\ [][(pc = "dispatch" /\ pc' = "top" /\ rd.result = Ok)
            => \A i \in 1..Len(submitted) :
                   (submitted[i].nonce = ExtractNonce(rd.msg.message)
                        /\ fired[i] = <<>>)
                       => (/\ submitted[i].nonce \in DOMAIN callbacks
                           /\ fired'[i] # <<>>)]_vars

\* Two events in a row are never the same.
EventsAlternate ==
    \A i \in 1..(Len(events) - 1) : events[i] # events[i + 1]

\* C27: the lifecycle events alternate between Connected and Disconnected,
\* and the loop does not set out to reconnect while the last event is still
\* Connected: a Disconnected event comes before the reconnect.
C27_EventsAlternate ==
    /\ []EventsAlternate
    /\ [][RunReconnect => ~(events # <<>> /\ Last(events) = Connected)]_vars

====
